---- MODULE Spec2Model ----
(***************************************************************************)
(* Model of msw's GraphQL request parsing                                  *)
(* (src/utils/internal/parseGraphQLRequest.ts) and of the response         *)
(* patching merge rule exercised by test/rest-api/response-patching.test.  *)
(*                                                                         *)
(* JavaScript values are records [t, id, p]: t is the kind of value, id    *)
(* the identity of a File (the body field it was uploaded under), p the    *)
(* own properties of a plain object.  File objects are shared by           *)
(* reference: their own properties live in the variable `files`.           *)
(*                                                                         *)
(* Input domain: the map and the operations have the shapes their types    *)
(* declare; dot-path segments are not names of Object.prototype or of      *)
(* File.prototype (for which `in` is true on every object); map keys are   *)
(* names of file fields, never of the body's query or variables fields;    *)
(* the module is strict code, so an assignment on a primitive throws.      *)
(***************************************************************************)
EXTENDS Naturals, Sequences, FiniteSets, TLC

VARIABLES
    request,       \* the MockedRequest given to parseGraphQLRequest
    pc,            \* position inside parseGraphQLRequest / getGraphQLInput
    operations,    \* extractMultipartVariables: operations = { variables }
    files,         \* the uploaded File objects (the body's other fields)
    parsedMap,     \* Object.entries(map), once decoded
    walk,          \* the last dot-path walked; operations and files before it
    idx,           \* index of the map entry being processed
    pidx,          \* index of the dot-path being processed inside that entry
    input,         \* what getGraphQLInput returned
    parsedResult,  \* what parseQuery returned
    result,        \* what parseGraphQLRequest returned
    error,         \* the error thrown to the caller, if any
    log,           \* console.error calls, in order
    resolved,      \* response patching: the resolver-produced response
    original,      \* response patching: the original network response
    patched        \* response patching: the merged response

vars == <<request, pc, operations, files, parsedMap, walk, idx, pidx, input,
          parsedResult, result, error, log, resolved, original, patched>>

patchVars == <<resolved, original, patched>>

(***************************************************************************)
(* Bounds                                                                  *)
(***************************************************************************)
\* longest path list of one map entry
MaxPaths == 1
\* most definitions in one query document
MaxDefs == 2

(***************************************************************************)
(* JavaScript values                                                       *)
(***************************************************************************)
NoProps == [k \in {} |-> 0]

Undefined == [t |-> "undefined", id |-> "", p |-> NoProps]
Null      == [t |-> "null", id |-> "", p |-> NoProps]
Str       == [t |-> "string", id |-> "", p |-> NoProps]
Obj(p)    == [t |-> "object", id |-> "", p |-> p]
FileRef(k) == [t |-> "file", id |-> k, p |-> NoProps]

\* JavaScript truthiness of a value (a non-empty string, an object, a File)
Truthy(v) == v.t \in {"string", "object", "file"}

\* the own properties of an object or a File; files are looked up by identity
PropsOf(v, fs) == IF v.t = "file" THEN fs[v.id] ELSE v.p

\* target[key] = value on a property map
SetProp(p, key, value) ==
    [k \in (DOMAIN p) \cup {key} |-> IF k = key THEN value ELSE p[k]]

\* all sequences over S of length lo..hi
SeqsOf(S, lo, hi) == UNION {[1..n -> S] : n \in lo..hi}

\* plain objects whose keys are among `keys` and whose values are in `vals`
ObjsOver(keys, vals) ==
    {Obj(f) : f \in UNION {[K -> vals] : K \in SUBSET keys}}

Keys == {"a", "b"}
\* what a key of `variables` holds: null, a string, {} or {b: null}
Nested == {Null, Str} \cup ObjsOver({"b"}, {Null})
\* the values `variables` takes in a multipart request: absent, null, a
\* string, or an object over Keys
VariablesValues == {Undefined, Null, Str} \cup ObjsOver(Keys, Nested)

(***************************************************************************)
(* Query text.  The `graphql` parser is modelled by what it yields: a      *)
(* syntax error, or a document that is a list of definitions.              *)
(***************************************************************************)
NoName == "undefined"

NoQuery      == [t |-> "absent", defs |-> <<>>]
EmptyQuery   == [t |-> "empty", defs |-> <<>>]
InvalidQuery == [t |-> "invalid", defs |-> <<>>]
Doc(defs)    == [t |-> "document", defs |-> defs]

OperationDefinitions ==
    [kind : {"OperationDefinition"},
     operation : {"query", "mutation", "subscription"},
     name : {NoName, "CreatePost"}]
FragmentDefinitions ==
    [kind : {"FragmentDefinition"}, operation : {NoName}, name : {"F"}]
Definitions == OperationDefinitions \cup FragmentDefinitions

Documents == {Doc(d) : d \in SeqsOf(Definitions, 1, MaxDefs)}
QueryTexts == {NoQuery, EmptyQuery, InvalidQuery} \cup Documents

\* !query
QueryFalsy(q) == q.t \in {"absent", "empty"}

CreatePost ==
    Doc(<<[kind |-> "OperationDefinition", operation |-> "mutation",
           name |-> "CreatePost"]>>)
\* the query texts carried by the `operations` field of a multipart body
MultipartQueries == {NoQuery, EmptyQuery, InvalidQuery, CreatePost}

(***************************************************************************)
(* JSON text: absent, the empty string, or a text that decodes or not.     *)
(***************************************************************************)
AbsentText(v)  == [t |-> "absent", valid |-> FALSE, value |-> v]
EmptyText(v)   == [t |-> "empty", valid |-> FALSE, value |-> v]
InvalidText(v) == [t |-> "text", valid |-> FALSE, value |-> v]
ValidText(v)   == [t |-> "text", valid |-> TRUE, value |-> v]

\* jsonParse: JSON.parse, with undefined for a text that does not decode
jsonParse(text) == [ok |-> text.t = "text" /\ text.valid, value |-> text.value]

\* text || ''  : an absent text is read as the empty string
OrEmpty(text) == IF text.t = "absent" THEN EmptyText(text.value) ELSE text

(***************************************************************************)
(* The multipart map, in the order Object.entries yields its entries       *)
(***************************************************************************)
FileKeys == {"0", "1"}

DotPaths == {<<"variables", "a">>, <<"variables", "b">>,
             <<"variables", "a", "b">>, <<"variables">>, <<"a">>}

EntriesOf(key) ==
    {[key |-> key, paths |-> ps] : ps \in SeqsOf(DotPaths, 0, MaxPaths)}

Maps == {<<>>}
        \cup {<<e>> : e \in EntriesOf("0") \cup EntriesOf("1")}
        \cup {<<e0, e1>> : e0 \in EntriesOf("0"), e1 \in EntriesOf("1")}

(***************************************************************************)
(* Requests                                                                *)
(***************************************************************************)
NoOperations == [query |-> NoQuery, variables |-> Undefined]

NoBody == [present |-> FALSE, query |-> NoQuery, variables |-> Undefined,
           operations |-> AbsentText(NoOperations),
           map |-> AbsentText(<<>>), fileKeys |-> {}]

UrlVariables ==
    {AbsentText(Undefined), EmptyText(Undefined), InvalidText(Undefined)}
    \cup {ValidText(v) : v \in {Null, Obj(NoProps), Obj([k \in {"a"} |-> Str])}}

UploadOperations ==
    ValidText([query |-> CreatePost, variables |-> Obj([k \in {"a"} |-> Null])])

GetRequests ==
    {[method |-> "GET", urlQuery |-> q, urlVariables |-> v, body |-> NoBody] :
        q \in QueryTexts, v \in UrlVariables}

PostBodies ==
    {[present |-> TRUE, query |-> q, variables |-> v, operations |-> o,
      map |-> AbsentText(<<>>), fileKeys |-> {}] :
        q \in QueryTexts,
        v \in {Undefined, Null, Obj([k \in {"a"} |-> Str])},
        o \in {AbsentText(NoOperations), UploadOperations}}

\* `operations` texts that carry no query ...
QuerylessOperations ==
    {EmptyText(NoOperations), InvalidText(NoOperations),
     ValidText([query |-> NoQuery, variables |-> Undefined]),
     ValidText([query |-> EmptyQuery,
                variables |-> Obj([k \in {"a"} |-> Null])])}

\* ... and those that carry one
QueryOperations ==
    {ValidText([query |-> CreatePost, variables |-> v]) : v \in VariablesValues}
    \cup {ValidText([query |-> InvalidQuery, variables |-> v]) :
            v \in {Undefined, Obj([k \in {"a"} |-> Null])}}

OperationsTexts == QuerylessOperations \cup QueryOperations

MapTexts ==
    {AbsentText(<<>>), InvalidText(<<>>)} \cup {ValidText(m) : m \in Maps}

MultipartBody(o, m, fk) ==
    [present |-> TRUE, query |-> NoQuery, variables |-> Undefined,
     operations |-> o, map |-> m, fileKeys |-> fk]

Post(body) ==
    [method |-> "POST", urlQuery |-> NoQuery,
     urlVariables |-> AbsentText(Undefined), body |-> body]

OtherRequests ==
    {[method |-> m, urlQuery |-> CreatePost,
      urlVariables |-> AbsentText(Undefined), body |-> b] :
        m \in {"PUT", "HEAD"},
        b \in {NoBody,
               [NoBody EXCEPT !.present = TRUE, !.query = CreatePost],
               [NoBody EXCEPT !.present = TRUE,
                              !.operations = UploadOperations]}}

InitRequest(req) ==
    \/ req \in GetRequests
    \/ \E b \in PostBodies \cup {NoBody} : req = Post(b)
    \/ \E o \in OperationsTexts, m \in MapTexts, fk \in SUBSET FileKeys :
          req = Post(MultipartBody(o, m, fk))
    \/ req \in OtherRequests

(***************************************************************************)
(* Results and errors                                                      *)
(***************************************************************************)
NoInput == [t |-> "null", query |-> NoQuery, variables |-> Undefined]
Input(q, v) == [t |-> "input", query |-> q, variables |-> v]

NoError == [kind |-> "none", named |-> <<>>]
\* new Error(`Given files do not have a key '${key}' .`)
MissingKeyError(key) == [kind |-> "MissingKey", named |-> <<key>>]
\* new Error(`Property '${paths}' is not in operations.`)
MissingPropertyError(paths) == [kind |-> "MissingProperty", named |-> paths]
\* the engine's TypeError for `in` or an assignment on a non-object
TypeError == [kind |-> "TypeError", named |-> <<>>]

NoParse == [t |-> "none", operationType |-> NoName, operationName |-> NoName]
ParseError ==
    [t |-> "error", operationType |-> NoName, operationName |-> NoName]
Parsed(type, name) ==
    [t |-> "parsed", operationType |-> type, operationName |-> name]

NoResult == [t |-> "pending", operationType |-> NoName,
             operationName |-> NoName, variables |-> Undefined]
NullResult == [t |-> "null", operationType |-> NoName,
               operationName |-> NoName, variables |-> Undefined]
Result(type, name, variables) ==
    [t |-> "parsed", operationType |-> type, operationName |-> name,
     variables |-> variables]

NoResponse == [headers |-> NoProps, body |-> "none"]

(***************************************************************************)
(* parseQuery                                                              *)
(***************************************************************************)
NoDefinition == [kind |-> "none", operation |-> NoName, name |-> NoName]

\* mutant: the first definition, whatever its kind
FirstDefinition(defs) == Head(defs)

\* ast.definitions.find((def) => def.kind === 'OperationDefinition')
FindOperationDefinition(defs) ==
    LET found == SelectSeq(defs, LAMBDA def : def.kind = "OperationDefinition")
    IN  IF found = <<>> THEN NoDefinition ELSE Head(found)

\* parse(query) throws on a syntax error; the catch returns the error
parseQuery(query) ==
    IF query.t # "document"
    THEN ParseError
    ELSE LET operationDef == FindOperationDefinition(query.defs)
         IN  Parsed(operationDef.operation, operationDef.name)

(***************************************************************************)
(* extractMultipartVariables: one dot-path                                 *)
(***************************************************************************)
Front(s) == SubSeq(s, 1, Len(s) - 1)
Last(s) == s[Len(s)]

\* `path in target` and `target[lastPath] = ...` need an object: on null or
\* on a primitive the engine raises a TypeError (module code is strict)
IsObject(v) == v.t \in {"object", "file"}

Outcome(err, value, fs) == [error |-> err, value |-> value, files |-> fs]

RECURSIVE Walk(_, _, _, _, _, _)
\* The loop over `paths` from `target`, then target[lastPath] = file.  Yields
\* the error thrown (if any), target's value afterwards and the File objects.
Walk(target, paths, lastPath, file, named, fs) ==
    IF ~IsObject(target)
    THEN Outcome(TypeError, target, fs)
    ELSE IF paths = <<>>
    THEN IF target.t = "file"
         THEN Outcome(NoError, target,
                      [fs EXCEPT ![target.id] = SetProp(@, lastPath, file)])
         ELSE Outcome(NoError, Obj(SetProp(target.p, lastPath, file)), fs)
    ELSE LET path == Head(paths)
             props == PropsOf(target, fs)
         IN  IF path \notin DOMAIN props
             THEN Outcome(MissingPropertyError(named), target, fs)
             ELSE LET r == Walk(props[path], Tail(paths), lastPath, file,
                                named, fs)
                  IN  IF r.error # NoError
                      THEN Outcome(r.error, target, fs)
                      ELSE IF target.t = "file"
                      THEN Outcome(NoError, target,
                                   [r.files EXCEPT ![target.id] =
                                       SetProp(@, path, r.value)])
                      ELSE Outcome(NoError,
                                   Obj(SetProp(target.p, path, r.value)),
                                   r.files)

\* mutant: the segments before the last are not walked
AssignShallow(ops, dotPath, file, fs) ==
    Walk(ops, <<>>, Last(dotPath), file, <<>>, fs)

\* const [lastPath, ...reversedPaths] = dotPath.split('.').reverse()
AssignAt(ops, dotPath, file, fs) ==
    Walk(ops, Front(dotPath), Last(dotPath), file, Front(dotPath), fs)

(***************************************************************************)
(* Initial state: a request has been handed to parseGraphQLRequest         *)
(***************************************************************************)
NoMap == [decoded |-> FALSE, entries |-> <<>>]

NoWalk == [path |-> <<>>, key |-> "", operations |-> Undefined,
           files |-> NoProps]

GqlIdle ==
    /\ pc = "idle"
    /\ request = Post(NoBody)
    /\ operations = Undefined
    /\ files = NoProps
    /\ parsedMap = NoMap
    /\ walk = NoWalk
    /\ idx = 0
    /\ pidx = 0
    /\ input = NoInput
    /\ parsedResult = NoParse
    /\ result = NoResult
    /\ error = NoError
    /\ log = <<>>

PatchIdle ==
    /\ resolved = NoResponse
    /\ original = NoResponse
    /\ patched = NoResponse

Init ==
    /\ InitRequest(request)
    /\ pc = "start"
    /\ operations = Undefined
    /\ files = NoProps
    /\ parsedMap = NoMap
    /\ walk = NoWalk
    /\ idx = 0
    /\ pidx = 0
    /\ input = NoInput
    /\ parsedResult = NoParse
    /\ result = NoResult
    /\ error = NoError
    /\ log = <<>>
    /\ PatchIdle

(***************************************************************************)
(* getGraphQLInput                                                         *)
(***************************************************************************)
\* jsonParse(operations) || {}
ParsedOperations(body) ==
    LET decoded == jsonParse(body.operations)
    IN  IF decoded.ok THEN decoded.value ELSE NoOperations

\* jsonParse(map || '') || {}
ParsedMap(body) ==
    LET decoded == jsonParse(OrEmpty(body.map))
    IN  IF decoded.ok THEN decoded.value ELSE <<>>

\* mutant: variables that do not decode default to {}
GetInputDefaulting(req) ==
    LET decoded == jsonParse(OrEmpty(req.urlVariables))
    IN  Input(req.urlQuery, IF decoded.ok THEN decoded.value ELSE Obj(NoProps))

\* case 'GET'
GetInput(req) ==
    LET decoded == jsonParse(OrEmpty(req.urlVariables))
    IN  Input(req.urlQuery, IF decoded.ok THEN decoded.value ELSE Undefined)

\* request.body?.operations
HasOperations(req) == req.body.present /\ req.body.operations.t = "text"

\* mutant: an operations field takes precedence over a query field
HasQueryOnly(req) ==
    req.body.present /\ ~QueryFalsy(req.body.query) /\ ~HasOperations(req)

\* request.body?.query
HasQuery(req) == req.body.present /\ ~QueryFalsy(req.body.query)

\* mutant: the map is decoded whether or not operations has a query
ReachesMapUnchecked(req) ==
    /\ req.method = "POST"
    /\ ~HasQuery(req)
    /\ HasOperations(req)

\* the multipart branch goes on to decode the map
ReachesMap(req) ==
    /\ req.method = "POST"
    /\ ~HasQuery(req)
    /\ HasOperations(req)
    /\ ~QueryFalsy(ParsedOperations(req.body).query)

\* the multipart branch calls extractMultipartVariables
CallsExtract(req) ==
    ReachesMap(req) /\ Truthy(ParsedOperations(req.body).variables)

\* what getGraphQLInput returns when it does not call extractMultipartVariables
DirectInput(req) ==
    IF req.method = "GET" THEN GetInput(req)
    ELSE IF req.method # "POST" THEN NoInput
    ELSE IF HasQuery(req) THEN Input(req.body.query, req.body.variables)
    ELSE IF ReachesMap(req)
         THEN Input(ParsedOperations(req.body).query, Obj(NoProps))
    ELSE NoInput

GetGraphQLInput ==
    /\ pc = "start"
    /\ parsedMap' = IF ReachesMap(request)
                    THEN [decoded |-> TRUE, entries |-> ParsedMap(request.body)]
                    ELSE parsedMap
    /\ IF CallsExtract(request)
       THEN /\ pc' = "extract"
            /\ operations' =
                 Obj([k \in {"variables"} |->
                        ParsedOperations(request.body).variables])
            /\ files' = [k \in request.body.fileKeys |-> NoProps]
            /\ idx' = 1
            /\ input' = input
       ELSE /\ pc' = "input"
            /\ input' = DirectInput(request)
            /\ UNCHANGED <<operations, files, idx>>
    /\ UNCHANGED <<request, walk, pidx, parsedResult,
                   result, error, log, patchVars>>

(***************************************************************************)
(* extractMultipartVariables                                               *)
(***************************************************************************)
Entry == parsedMap.entries[idx]

\* after the dot-path at pidx of the entry at idx: the next path or entry
Advance ==
    IF pidx < Len(Entry.paths)
    THEN /\ pidx' = pidx + 1
         /\ idx' = idx
    ELSE /\ pidx' = 0
         /\ idx' = idx + 1

\* if (!(key in files)) throw
CheckKey ==
    /\ pc = "extract"
    /\ idx <= Len(parsedMap.entries)
    /\ pidx = 0
    /\ IF Entry.key \notin DOMAIN files
       THEN /\ pc' = "thrown"
            /\ error' = MissingKeyError(Entry.key)
            /\ UNCHANGED <<idx, pidx>>
       ELSE /\ Advance
            /\ UNCHANGED <<pc, error>>
    /\ UNCHANGED <<request, operations, files, parsedMap, walk, input,
                   parsedResult, result, log, patchVars>>

\* for (const dotPath of pathArray) { ... target[lastPath] = files[key] }
AssignFile ==
    /\ pc = "extract"
    /\ idx <= Len(parsedMap.entries)
    /\ pidx >= 1
    /\ LET r == AssignAt(operations, Entry.paths[pidx], FileRef(Entry.key),
                         files)
       IN  /\ walk' = [path |-> Entry.paths[pidx], key |-> Entry.key,
                       operations |-> operations, files |-> files]
           /\ IF r.error # NoError
              THEN /\ pc' = "thrown"
                   /\ error' = r.error
                   /\ UNCHANGED <<operations, files, idx, pidx>>
              ELSE /\ operations' = r.value
                   /\ files' = r.files
                   /\ Advance
                   /\ UNCHANGED <<pc, error>>
    /\ UNCHANGED <<request, parsedMap, input, parsedResult, result, log,
                   patchVars>>

\* return operations.variables, and getGraphQLInput's return of it
ReturnVariables ==
    /\ pc = "extract"
    /\ idx > Len(parsedMap.entries)
    /\ input' = Input(ParsedOperations(request.body).query,
                      operations.p["variables"])
    /\ pc' = "input"
    /\ UNCHANGED <<request, operations, files, parsedMap, walk, idx, pidx,
                   parsedResult, result, error, log,
                   patchVars>>

(***************************************************************************)
(* parseGraphQLRequest                                                     *)
(***************************************************************************)
\* if (!input || !input.query) return null; else parseQuery(query)
CheckInput ==
    /\ pc = "input"
    /\ IF input.t = "null" \/ QueryFalsy(input.query)
       THEN /\ result' = NullResult
            /\ pc' = "done"
            /\ UNCHANGED parsedResult
       ELSE /\ parsedResult' = parseQuery(input.query)
            /\ pc' = "parsed"
            /\ UNCHANGED result
    /\ UNCHANGED <<request, operations, files, parsedMap, walk, idx, pidx,
                   input, error, log, patchVars>>

\* the two console.error calls of the parse-error branch
Diagnostic(req) ==
    <<[kind |-> "message", method |-> req.method],
      [kind |-> "parserError", method |-> req.method]>>

ReportParseError ==
    /\ pc = "parsed"
    /\ parsedResult.t = "error"
    /\ log' = log \o Diagnostic(request)
    /\ result' = NullResult
    /\ pc' = "done"
    /\ UNCHANGED <<request, operations, files, parsedMap, walk, idx, pidx,
                   input, parsedResult, error,
                   patchVars>>

ReturnParsed ==
    /\ pc = "parsed"
    /\ parsedResult.t = "parsed"
    /\ result' = Result(parsedResult.operationType,
                        parsedResult.operationName, input.variables)
    /\ pc' = "done"
    /\ UNCHANGED <<request, operations, files, parsedMap, walk, idx, pidx,
                   input, parsedResult, error, log,
                   patchVars>>

Next ==
    \/ GetGraphQLInput
    \/ CheckKey
    \/ AssignFile
    \/ ReturnVariables
    \/ CheckInput
    \/ ReportParseError
    \/ ReturnParsed

Spec == Init /\ [][Next]_vars

(***************************************************************************)
(* Response patching: a resolver-produced response merged with the         *)
(* original network response                                               *)
(***************************************************************************)
HeaderNames == {"x-powered-by", "x-custom"}
HeaderValues == {"msw", "PATCHED"}
Bodies == {"none", "mocked", "original"}

Responses ==
    [headers : UNION {[N -> HeaderValues] : N \in SUBSET HeaderNames},
     body : Bodies]

\* mutant: the original's headers and body win
PatchOriginalWins(mock, orig) ==
    [headers |->
        [n \in (DOMAIN mock.headers) \cup (DOMAIN orig.headers) |->
            IF n \in DOMAIN orig.headers
            THEN orig.headers[n]
            ELSE mock.headers[n]],
     body |-> IF orig.body # "none" THEN orig.body ELSE mock.body]

\* headers: the mock's, then the original's under names the mock lacks;
\* body: the mock's when it specifies one
PatchResponse(mock, orig) ==
    [headers |->
        [n \in (DOMAIN mock.headers) \cup (DOMAIN orig.headers) |->
            IF n \in DOMAIN mock.headers
            THEN mock.headers[n]
            ELSE orig.headers[n]],
     body |-> IF mock.body # "none" THEN mock.body ELSE orig.body]

InitPatch ==
    /\ GqlIdle
    /\ resolved \in Responses
    /\ original \in Responses
    /\ patched = NoResponse

Patch ==
    /\ pc = "idle"
    /\ patched' = PatchResponse(resolved, original)
    /\ pc' = "patched"
    /\ UNCHANGED <<request, operations, files, parsedMap, walk, idx, pidx,
                   input, parsedResult, result, error, log, resolved,
                   original>>

NextPatch == Patch

SpecPatch == InitPatch /\ [][NextPatch]_vars

(***************************************************************************)
(* Vocabulary of the properties                                            *)
(***************************************************************************)
\* the call has ended: it returned, or it threw to its caller
Returned == pc = "done"
Threw == pc = "thrown"
\* getGraphQLInput has ended without throwing
Extracted == pc \in {"input", "parsed", "done"}

RECURSIVE Get(_, _, _)
\* the value found at `path` below v (undefined where the path leaves v)
Get(v, path, fs) ==
    IF path = <<>> THEN v
    ELSE IF ~IsObject(v) \/ Head(path) \notin DOMAIN PropsOf(v, fs)
    THEN Undefined
    ELSE Get(PropsOf(v, fs)[Head(path)], Tail(path), fs)

RECURSIVE Exists(_, _, _)
\* every segment of `path` is a property of the value before it
Exists(v, path, fs) ==
    \/ path = <<>>
    \/ /\ IsObject(v)
       /\ Head(path) \in DOMAIN PropsOf(v, fs)
       /\ Exists(PropsOf(v, fs)[Head(path)], Tail(path), fs)

RECURSIVE PathsOf(_)
\* the paths of the values inside a JSON value, the empty path for itself
PathsOf(v) ==
    {<<>>} \cup
    (IF v.t = "object"
     THEN UNION {{<<k>> \o q : q \in PathsOf(v.p[k])} : k \in DOMAIN v.p}
     ELSE {})

IsPrefix(p, q) == Len(p) <= Len(q) /\ SubSeq(q, 1, Len(p)) = p
IsProperPrefix(p, q) == IsPrefix(p, q) /\ Len(p) < Len(q)
Comparable(p, q) == IsPrefix(p, q) \/ IsPrefix(q, p)

RECURSIVE Flatten(_)
\* the (key, dot-path) pairs of a map, in the order they are processed
Flatten(map) ==
    IF map = <<>> THEN <<>>
    ELSE [i \in 1..Len(Head(map).paths) |->
            [key |-> Head(map).key, path |-> Head(map).paths[i]]]
         \o Flatten(Tail(map))

\* the request as sent: is it a multipart POST whose operations has a query
MultipartWithQuery ==
    /\ request.method = "POST"
    /\ request.body.present
    /\ request.body.query.t \in {"absent", "empty"}
    /\ request.body.operations.t = "text"
    /\ request.body.operations.valid
    /\ request.body.operations.value.query.t \in {"invalid", "document"}

\* the decoded operations.variables and map of the request as sent
SentVariables == request.body.operations.value.variables
SentMap ==
    IF request.body.map.t = "text" /\ request.body.map.valid
    THEN request.body.map.value
    ELSE <<>>
SentPairs == Flatten(SentMap)
MissingKeys ==
    {SentMap[i].key : i \in DOMAIN SentMap} \ request.body.fileKeys

\* the query text the request carries, wherever it carries it
SentQuery ==
    IF request.method = "GET" THEN request.urlQuery
    ELSE IF request.method # "POST" \/ ~request.body.present THEN NoQuery
    ELSE IF request.body.query.t \in {"invalid", "document"}
    THEN request.body.query
    ELSE IF request.body.operations.t = "text" /\ request.body.operations.valid
    THEN request.body.operations.value.query
    ELSE NoQuery

\* the diagnostics logged: console.error calls that carry the [MSW] message
Messages == {i \in DOMAIN log : log[i].kind = "message"}

(***************************************************************************)
(* C1  parseGraphQLRequest never throws: for every request the call        *)
(* completes and returns a value instead of raising an error to its        *)
(* caller.  (Refuted: extractMultipartVariables throws and nothing between *)
(* it and the caller catches.)                                             *)
(***************************************************************************)
C1_NeverThrows == ~Threw

(***************************************************************************)
(* C2  A multipart POST whose operations has a query and whose map names a *)
(* key that was not uploaded fails with an error naming that key, and at   *)
(* the failure no file has been substituted into the variables, whatever   *)
(* the variables value is.  (Refuted: absent or null variables skip the    *)
(* check; entries before the missing key have already been substituted.)   *)
(***************************************************************************)
C2_MissingKeyFailsClean ==
    (MultipartWithQuery /\ MissingKeys # {} /\ (Extracted \/ Threw))
    => /\ Threw
       /\ error.kind = "MissingKey"
       /\ error.named[1] \in MissingKeys
       /\ operations = Obj([k \in {"variables"} |-> SentVariables])
       /\ \A k \in DOMAIN files : files[k] = NoProps

(***************************************************************************)
(* C3  (as amended)  For a multipart POST that extracts without an error:  *)
(* when the decoded operations.variables is truthy, every (key, path) of   *)
(* the map whose path lies under `variables`, that no other map path is a  *)
(* proper prefix of and that no later entry repeats, holds the File        *)
(* uploaded under that key, and every value of the decoded variables at a  *)
(* path that is neither a prefix nor an extension of a map path is         *)
(* unchanged; when operations.variables is absent, null or otherwise falsy *)
(* the returned variables are the empty object and the map is not applied. *)
(***************************************************************************)
UnderVariables(path) == path # <<>> /\ Head(path) = "variables"

\* nothing else decides what is left at the place pair i addresses
Final(i) ==
    \A j \in DOMAIN SentPairs :
        /\ ~(j # i /\ IsProperPrefix(SentPairs[j].path, SentPairs[i].path))
        /\ ~(j > i /\ SentPairs[j].path = SentPairs[i].path)

SubstitutedIn(variables) ==
    \A i \in DOMAIN SentPairs :
        (UnderVariables(SentPairs[i].path) /\ Final(i))
        => Get(variables, Tail(SentPairs[i].path), files)
             = FileRef(SentPairs[i].key)

Unaddressed(p) ==
    \A i \in DOMAIN SentPairs :
        UnderVariables(SentPairs[i].path)
        => ~Comparable(Tail(SentPairs[i].path), p)

UntouchedIn(variables) ==
    \A p \in PathsOf(SentVariables) :
        Unaddressed(p)
        => Get(variables, p, files) = Get(SentVariables, p, files)

C4_InvalidQueryLoggedOnce ==
    /\ (SentQuery.t = "invalid" /\ (Returned \/ Threw))
       => /\ Returned
          /\ result = NullResult
          /\ Cardinality(Messages) = 1
    /\ SentQuery.t \in {"absent", "empty"} => log = <<>>

(***************************************************************************)
(* C5  Response patching: the patched headers hold every header of the     *)
(* mocked response with the mock's value and every header of the original  *)
(* whose name the mock lacks with the original's value; the patched body   *)
(* is the mock's when the mock specifies one and the original's otherwise. *)
(***************************************************************************)
C5_MergeRule ==
    pc = "patched"
    => /\ \A n \in DOMAIN resolved.headers :
             /\ n \in DOMAIN patched.headers
             /\ patched.headers[n] = resolved.headers[n]
       /\ \A n \in (DOMAIN original.headers) \ (DOMAIN resolved.headers) :
             /\ n \in DOMAIN patched.headers
             /\ patched.headers[n] = original.headers[n]
       /\ resolved.body # "none" => patched.body = resolved.body
       /\ resolved.body = "none" => patched.body = original.body

\* the patched HEAD /posts of the test: the mock's x-powered-by and body,
\* the original's x-custom
C5_Witness ==
    /\ pc = "patched"
    /\ resolved = [headers |-> [n \in {"x-powered-by"} |-> "msw"],
                   body |-> "mocked"]
    /\ original = [headers |-> [n \in {"x-custom"} |-> "PATCHED"],
                   body |-> "none"]
    /\ patched.headers["x-powered-by"] = "msw"
    /\ patched.headers["x-custom"] = "PATCHED"
    /\ patched.body = "mocked"

(***************************************************************************)
(* C6  (as amended)  For every POST request whose body has a non-empty     *)
(* query, extraction returns exactly that query text and exactly the       *)
(* body's variables value, whatever the other body fields are (an          *)
(* operations field is not read and no map is decoded).                    *)
(***************************************************************************)
C6_DirectQuery ==
    (/\ request.method = "POST"
     /\ request.body.present
     /\ request.body.query.t \in {"invalid", "document"}
     /\ pc # "start")
    => /\ input = Input(request.body.query, request.body.variables)
       /\ pc \in {"input", "parsed", "done"}
       /\ ~parsedMap.decoded

C6_Witness ==
    /\ Returned
    /\ request.method = "POST"
    /\ request.body.query.t = "document"
    /\ request.body.operations.t = "text"
    /\ request.body.variables = Obj([k \in {"a"} |-> Str])
    /\ result.t = "parsed"
    /\ result.variables = request.body.variables

\* C6 as first stated: for every value of query, the empty string included
C6_AsStated ==
    (/\ request.method = "POST"
     /\ request.body.present
     /\ request.body.query.t # "absent"
     /\ pc # "start")
    => input = Input(request.body.query, request.body.variables)

(***************************************************************************)
(* C7  For every GET request that has a query URL parameter, extraction    *)
(* succeeds with that query text; when the variables URL parameter is      *)
(* absent or is not decodable JSON the variables are undefined, and        *)
(* extraction never fails because of the variables parameter.              *)
(***************************************************************************)
C7_GetExtraction ==
    (/\ request.method = "GET"
     /\ request.urlQuery.t # "absent"
     /\ pc # "start")
    => /\ ~Threw
       /\ input.t = "input"
       /\ input.query = request.urlQuery
       /\ ~(request.urlVariables.t = "text" /\ request.urlVariables.valid)
          => input.variables = Undefined

C7_Witness ==
    /\ Returned
    /\ request.method = "GET"
    /\ request.urlQuery.t = "document"
    /\ request.urlVariables.t = "text"
    /\ ~request.urlVariables.valid
    /\ result.t = "parsed"
    /\ result.variables = Undefined

(***************************************************************************)
(* C8  Classifying a syntactically valid document yields the operation     *)
(* kind and optional name of the first operation definition in document    *)
(* order, definitions that are not operations being skipped; a document    *)
(* with no operation definition yields an undefined operationType in a     *)
(* result that is still returned, with no diagnostic.                      *)
(***************************************************************************)
\* the index of the first operation definition, 0 when there is none
FirstOperation(defs) ==
    LET ops == {i \in DOMAIN defs : defs[i].kind = "OperationDefinition"}
    IN  IF ops = {} THEN 0 ELSE CHOOSE i \in ops : \A j \in ops : i <= j

\* C8: the result carries the kind and name of the first operation
\* definition, or undefined ones when the document has none; nothing is logged
C8_FirstOperation ==
    (pc \in {"parsed", "done"} /\ input.t = "input"
       /\ input.query.t = "document")
    => LET defs == input.query.defs
           n == FirstOperation(defs)
           type == IF n = 0 THEN NoName ELSE defs[n].operation
           name == IF n = 0 THEN NoName ELSE defs[n].name
       IN  /\ parsedResult = Parsed(type, name)
           /\ log = <<>>
           /\ Returned => result = Result(type, name, input.variables)

\* a fragment comes first and is skipped
C8_Witness ==
    /\ Returned
    /\ input.query.t = "document"
    /\ Len(input.query.defs) = 2
    /\ input.query.defs[1].kind = "FragmentDefinition"
    /\ input.query.defs[2].kind = "OperationDefinition"
    /\ result.t = "parsed"
    /\ result.operationType = "mutation"
    /\ result.operationName = "CreatePost"

(***************************************************************************)
(* C9  A POST body with an operations field and no direct query whose      *)
(* operations does not decode, or decodes to something without a query,    *)
(* yields "no GraphQL request" before the map is decoded or any file key   *)
(* or dot-path is looked at, so an invalid map or a missing file raises    *)
(* nothing; a POST body with neither query nor operations, and any method  *)
(* other than GET and POST, yield "no GraphQL request" as well.            *)
(***************************************************************************)
QuerylessUpload ==
    /\ request.method = "POST"
    /\ request.body.present
    /\ request.body.query.t \in {"absent", "empty"}
    /\ request.body.operations.t = "text"
    /\ \/ ~request.body.operations.valid
       \/ request.body.operations.value.query.t \in {"absent", "empty"}

NotGraphQL ==
    \/ request.method \notin {"GET", "POST"}
    \/ /\ request.method = "POST"
       /\ \/ ~request.body.present
          \/ /\ request.body.query.t \in {"absent", "empty"}
             /\ request.body.operations.t # "text"

\* C9: a multipart body without a query returns no input before the map is
\* decoded; other non-GraphQL requests return no input
C9_QueryCheckedFirst ==
    /\ (QuerylessUpload /\ pc # "start")
       => /\ input = NoInput
          /\ ~parsedMap.decoded
          /\ walk = NoWalk
          /\ error = NoError
          /\ pc \in {"input", "done"}
          /\ Returned => result = NullResult
    /\ (NotGraphQL /\ pc # "start")
       => /\ input = NoInput
          /\ pc \in {"input", "done"}
          /\ Returned => result = NullResult

\* no query in operations, and a map that names a file nobody uploaded
C9_Witness ==
    /\ Returned
    /\ QuerylessUpload
    /\ request.body.operations.valid
    /\ MissingKeys # {}
    /\ result = NullResult

(***************************************************************************)
(* C10  Walking a dot-path: if a segment before the last is missing the    *)
(* extraction fails with a descriptive error that names the missing        *)
(* segment; otherwise the last segment is assigned the file, over whatever *)
(* was there.  (Refuted: a segment that exists but holds null or a string  *)
(* raises the engine's TypeError and nothing is assigned.)                 *)
(***************************************************************************)
\* the segments before the last that are not there when the walk starts
MissingSegments ==
    {n \in 1..(Len(walk.path) - 1) :
        ~Exists(walk.operations, SubSeq(walk.path, 1, n), walk.files)}

\* C10: a missing segment before the last gives the descriptive error that
\* names it; otherwise the last segment holds the file afterwards
C10_DotPathWalk ==
    walk.path # <<>>
    => IF MissingSegments # {}
       THEN /\ error.kind = "MissingProperty"
            /\ \E n \in MissingSegments :
                  /\ \A m \in MissingSegments : n <= m
                  /\ \E k \in DOMAIN error.named :
                        error.named[k] = walk.path[n]
       ELSE /\ error.kind \notin {"MissingProperty", "TypeError"}
            /\ Get(operations, walk.path, files) = FileRef(walk.key)

====
